---- MODULE Spec2Model ----
(***************************************************************************)
(* QTagEdit: a line edit whose text buffer is read as a list of            *)
(* space-separated tags, optionally split again into properties            *)
(* name<sep>value<sep>value...                                             *)
(*                                                                         *)
(* A QString is modelled as a sequence of one-character strings, a         *)
(* QStringList as a sequence of such sequences, a QColor as a record of    *)
(* its four 8-bit channels.                                                *)
(***************************************************************************)
EXTENDS Integers, Sequences, FiniteSets, TLC

VARIABLES
  text,         \* QLineEdit::text(), the buffer
  separator,    \* Impl::separator (std::optional<QChar>)
  unique_tags,  \* Impl::unique_tags
  completer,    \* Impl::completer: the candidate list, or none
  popup,        \* the candidates the completer popup currently offers
  tag_filter,   \* Impl::tag_filter (std::function, possibly empty)
  primary,      \* Impl::primary
  secondary,    \* Impl::secondary
  enabled,      \* QWidget::isEnabled()
  focus,        \* QWidget::hasFocus()
  pen_color,    \* argument of the last getPenForColor call under test
  pen,          \* the pen it returned, once it has returned
  emitted,      \* signals emitted by the last operation, in order, each
                \* with the buffer a listener reads when it is delivered
  painted,      \* draw commands issued by the last operation
  lastOp,       \* the last operation
  lastArg,      \* its argument
  prevText      \* the buffer the last operation built the new one from
                \* (empty for an operation that does not read the buffer)

vars == <<text, separator, unique_tags, completer, popup, tag_filter, primary,
          secondary, enabled, focus, pen_color, pen, emitted, painted, lastOp,
          lastArg, prevText>>

-----------------------------------------------------------------------------
(* Bounds of the model *)

\* Longest buffer the model builds; longer results disable the operation.
MaxLen == 5
\* Longest buffer the user types into; a key press at that length is not taken.
MaxTyped == 3
\* Longest tag list handed to setTags.
MaxTags == 2
\* Longest property list handed to setProperties.
MaxProps == 2

SP == " "
\* The characters of the model: two letters, the separator character, space.
Chars == {"a", "b", "=", SP}

NoSep == "none"
\* Arguments of setPropertySeparator.
SepChars == {"="}

\* Tags handed to setTags / addTag: non-empty and free of spaces.
TagPool == {<<"a">>, <<"b">>, <<"a", "=", "b">>}

RECURSIVE SeqsUpTo(_, _)
SeqsUpTo(S, n) ==
  IF n = 0 THEN {<<>>}
  ELSE LET shorter == SeqsUpTo(S, n - 1)
       IN  shorter \cup {Append(s, x) : s \in shorter, x \in S}

TagLists == SeqsUpTo(TagPool, MaxTags)

\* Properties handed to setProperties / addProperty: the name is non-empty,
\* name and values hold neither a space nor the separator.
PropPool ==
  { [name |-> <<"a">>, values |-> <<>>],
    [name |-> <<"a">>, values |-> <<<<"b">>>>],
    [name |-> <<"b">>, values |-> <<<<>>>>],
    [name |-> <<"a">>, values |-> <<<<"a">>, <<"b">>>>] }

PropLists == SeqsUpTo(PropPool, MaxProps)

\* Candidate lists handed to setTagsForCompletion.
CandidateLists == {{<<"a">>, <<"a", "b">>}}

-----------------------------------------------------------------------------
(* QString / QStringList primitives used by the widget *)

\* QString::indexOf(ch): first 0-based position of ch, -1 when absent.
indexOf(s, ch) ==
  IF \E i \in 1..Len(s) : s[i] = ch
  THEN (CHOOSE i \in 1..Len(s) : s[i] = ch /\ \A j \in 1..(i - 1) : s[j] # ch) - 1
  ELSE -1

\* QString::lastIndexOf(ch): last 0-based position of ch, -1 when absent.
lastIndexOf(s, ch) ==
  IF \E i \in 1..Len(s) : s[i] = ch
  THEN (CHOOSE i \in 1..Len(s) :
          s[i] = ch /\ \A j \in (i + 1)..Len(s) : s[j] # ch) - 1
  ELSE -1

\* QString::truncate(n): the first n characters.
truncate(s, n) == SubSeq(s, 1, n)

\* QString::sliced(n): the characters from 0-based position n on.
sliced(s, n) == SubSeq(s, n + 1, Len(s))

\* QString::split(ch) with Qt::KeepEmptyParts (the default).
RECURSIVE split(_, _)
split(s, ch) ==
  LET i == indexOf(s, ch)
  IN  IF i < 0 THEN <<s>>
      ELSE <<truncate(s, i)>> \o split(sliced(s, i + 1), ch)

\* Qt::SkipEmptyParts
skipEmptyParts(parts) == SelectSeq(parts, LAMBDA p : p # <<>>)

\* QStringList::join(" ")
RECURSIVE join(_)
join(tags) ==
  IF tags = <<>> THEN <<>>
  ELSE IF Len(tags) = 1 THEN tags[1]
  ELSE tags[1] \o <<SP>> \o join(Tail(tags))

-----------------------------------------------------------------------------
(* The tag model *)

getTags(t) == skipEmptyParts(split(t, SP))

\* A variant that writes the separator after each value.
RECURSIVE appendValues_sepAfter(_, _, _)
appendValues_sepAfter(tag, values, sep) ==
  IF values = <<>> THEN tag
  ELSE appendValues_sepAfter(tag \o Head(values) \o <<sep>>, Tail(values),
                             sep)

\* tag += *sep + value, for each value
RECURSIVE appendValues(_, _, _)
appendValues(tag, values, sep) ==
  IF values = <<>> THEN tag
  ELSE appendValues(tag \o <<sep>> \o Head(values), Tail(values), sep)

\* The token setProperties / addProperty build for one property.
propertyTag(p, sep) ==
  IF sep # NoSep THEN appendValues(p.name, p.values, sep) ELSE p.name

RECURSIVE propertyTags(_, _)
propertyTags(ps, sep) ==
  IF ps = <<>> THEN <<>>
  ELSE <<propertyTag(Head(ps), sep)>> \o propertyTags(Tail(ps), sep)

\* A variant that keeps the name among the values.
propertyOf_keepName(tag, sep) ==
  LET tokens == split(tag, sep)
  IN  [name |-> tokens[1], values |-> tokens]

\* A variant that drops empty values.
propertyOf_skipEmpty(tag, sep) ==
  LET tokens == split(tag, sep)
  IN  [name |-> tokens[1], values |-> skipEmptyParts(Tail(tokens))]

\* The Property getProperties appends for one tag.
propertyOf(tag, sep) ==
  LET tokens == split(tag, sep)
  IN  IF Len(tokens) > 1
      THEN [name |-> tokens[1], values |-> Tail(tokens)]
      ELSE [name |-> tokens[1], values |-> <<>>]

RECURSIVE propertiesOf(_, _)
propertiesOf(tags, sep) ==
  IF tags = <<>> THEN <<>>
  ELSE <<propertyOf(Head(tags), sep)>> \o propertiesOf(Tail(tags), sep)

getProperties(t, sep) ==
  IF sep = NoSep THEN <<>> ELSE propertiesOf(getTags(t), sep)

\* A variant that keeps the last element of each run.
RECURSIVE uniqueProperties_keepLast(_, _)
uniqueProperties_keepLast(kept, rest) ==
  IF rest = <<>> THEN kept
  ELSE IF kept # <<>> /\ kept[Len(kept)].name = Head(rest).name
  THEN uniqueProperties_keepLast(
         Append(SubSeq(kept, 1, Len(kept) - 1), Head(rest)), Tail(rest))
  ELSE uniqueProperties_keepLast(Append(kept, Head(rest)), Tail(rest))

\* std::unique with the predicate a.name == b.name, then erase.
RECURSIVE uniqueProperties(_, _)
uniqueProperties(kept, rest) ==
  IF rest = <<>> THEN kept
  ELSE IF kept # <<>> /\ kept[Len(kept)].name = Head(rest).name
  THEN uniqueProperties(kept, Tail(rest))
  ELSE uniqueProperties(Append(kept, Head(rest)), Tail(rest))

\* std::unique with the predicate a == b, then erase.
RECURSIVE uniqueTags(_, _)
uniqueTags(kept, rest) ==
  IF rest = <<>> THEN kept
  ELSE IF kept # <<>> /\ kept[Len(kept)] = Head(rest)
  THEN uniqueTags(kept, Tail(rest))
  ELSE uniqueTags(Append(kept, Head(rest)), Tail(rest))

\* The buffer each mutator hands to setText.
setTagsText(tags) == join(tags)

\* A variant that appends the tag without a space.
addTagText_noSpace(t, tag) == t \o tag

addTagText(t, tag) == IF t = <<>> THEN tag ELSE t \o <<SP>> \o tag

\* A variant that cuts at the first space.
removeLastTagText_firstSpace(t) ==
  LET index == indexOf(t, SP)
  IN  IF index >= 0 THEN truncate(t, index) ELSE <<>>

removeLastTagText(t) ==
  LET index == lastIndexOf(t, SP)
  IN  IF index >= 0 THEN truncate(t, index) ELSE <<>>

setPropertiesText(ps, sep) == setTagsText(propertyTags(ps, sep))

addPropertyText(t, p, sep) == t \o <<SP>> \o propertyTag(p, sep)

makeTagsUniqueText(t, sep) ==
  IF sep # NoSep
  THEN setPropertiesText(uniqueProperties(<<>>, getProperties(t, sep)), sep)
  ELSE setTagsText(uniqueTags(<<>>, getTags(t)))

-----------------------------------------------------------------------------
(* Signals *)

\* A variant whose connection forwards textChanged to tagsEdited.
textChanged_toEdited(old, new) ==
  IF new # old THEN <<[signal |-> "tagsEdited", text |-> new]>> ELSE <<>>

\* QLineEdit::setText emits textChanged when the text differs; the
\* constructor forwards textChanged to tagsChanged over a direct connection,
\* so the listener runs inside setText and reads the new buffer.
textChanged(old, new) ==
  IF new # old THEN <<[signal |-> "tagsChanged", text |-> new]>> ELSE <<>>

\* A user edit emits textChanged and then textEdited, forwarded to
\* tagsChanged and tagsEdited.
textEdited(old, new) ==
  IF new # old
  THEN <<[signal |-> "tagsChanged", text |-> new],
         [signal |-> "tagsEdited", text |-> new]>>
  ELSE <<>>

\* QRegularExpressionValidator over \S+(\s\S+)* : a full match is
\* Acceptable, the empty input or a partial match Intermediate.
validate(t) ==
  LET noLeading == t = <<>> \/ t[1] # SP
      noDouble  == \A i \in 1..(Len(t) - 1) : ~(t[i] = SP /\ t[i + 1] = SP)
  IN  IF t # <<>> /\ noLeading /\ noDouble /\ t[Len(t)] # SP THEN "Acceptable"
      ELSE IF noLeading /\ noDouble THEN "Intermediate"
      ELSE "Invalid"

NoCompleter == [set |-> FALSE, candidates |-> {}]

isPrefix(p, s) == Len(p) <= Len(s) /\ SubSeq(s, 1, Len(p)) = p

\* The completion prefix keyPressEvent sets, and the candidates the popup
\* then lists.
completionPrefix(t) ==
  IF t = <<>> \/ t[Len(t)] = SP THEN <<>>
  ELSE LET tags == getTags(t) IN tags[Len(tags)]

popupAfterKey(t, oldPopup) ==
  IF completer.set
  THEN {c \in completer.candidates : isPrefix(completionPrefix(t), c)}
  ELSE oldPopup

-----------------------------------------------------------------------------
(* Styles, the filter and pen selection *)

NoFilter == [set |-> FALSE, accept |-> {}]

\* Arguments of setTagFilter: membership predicates, as in example/main.cpp.
FilterPool == {{<<"a">>}, {<<"b">>, <<"a", "=", "b">>}}

Color(r, g, b, a) == [r |-> r, g |-> g, b |-> b, a |-> a]

kLineColor == Color(37, 150, 190, 255)
kShadeColor == Color(37, 150, 190, 127)
kPropertyColor == Color(37, 150, 190, 90)
kSecondaryLineColor == Color(190, 155, 37, 255)
kSecondaryShadeColor == Color(190, 155, 37, 127)
kSecondaryPropertyColor == Color(190, 155, 37, 90)
kDarkColor == Color(0, 0, 0, 255)
kBrightColor == Color(245, 245, 245, 255)
\* QColor("gray") and QColor("lightgray")
gray == Color(128, 128, 128, 255)
lightgray == Color(211, 211, 211, 255)

Style(line, shade, property) ==
  [line_color |-> line, shade_color |-> shade, property_color |-> property]

\* Arguments of setColors / setSecondaryColors.
StylePool ==
  { Style(kLineColor, kShadeColor, kPropertyColor),
    Style(kSecondaryLineColor, kSecondaryShadeColor, kSecondaryPropertyColor),
    Style(Color(0, 0, 0, 255), Color(40, 40, 40, 255), Color(20, 20, 20, 255)) }

\* kRgbBrightnessWeights, in thousandths.
kRgbBrightnessWeights == <<299, 587, 114>>
kDarkColorTreshold == 150

\* A variant that takes every colour for opaque.
scale_a_opaque(color, value) == 255 * 255 - 255 * (255 - value)

\* scale_a(value) = 255 - alpha / 255.0 * (255.0 - value), times 255.
scale_a(color, value) == 255 * 255 - color.a * (255 - value)

\* weighted_color, times 255 * 1000: an exact integer.
weighted_color(color) ==
  scale_a(color, color.r) * kRgbBrightnessWeights[1]
  + scale_a(color, color.g) * kRgbBrightnessWeights[2]
  + scale_a(color, color.b) * kRgbBrightnessWeights[3]

\* The code computes weighted_color in double precision.  The exact value is
\* a multiple of 1/255000, so the rounded sum compares with 150.0 as the
\* exact value does unless the exact value is 150; there the rounding of
\* the products and sums decides.  These are the colours <<r, g, b, alpha>>
\* of exact value 150 whose double sum, evaluated in source order with
\* IEEE-754 round-to-nearest, is above 150.0.
kRoundedAbove ==
  { <<19, 29, 64, 119>>, <<64, 5, 86, 120>>, <<88, 14, 55, 125>>,
    <<62, 22, 82, 125>>, <<33, 9, 225, 125>>, <<21, 39, 102, 125>>,
    <<157, 14, 26, 136>>, <<56, 67, 18, 136>>, <<62, 70, 148, 150>>,
    <<203, 29, 20, 153>>, <<185, 17, 129, 153>>, <<91, 81, 46, 153>>,
    <<58, 78, 148, 153>>, <<32, 86, 175, 153>>, <<24, 106, 93, 153>>,
    <<202, 47, 67, 168>>, <<142, 83, 39, 168>>, <<64, 107, 120, 168>>,
    <<239, 43, 7, 170>>, <<236, 22, 123, 170>>, <<233, 1, 239, 170>>,
    <<228, 42, 41, 170>>, <<221, 31, 116, 170>>, <<188, 28, 218, 170>>,
    <<172, 68, 54, 170>>, <<161, 67, 88, 170>>, <<127, 95, 33, 170>>,
    <<116, 94, 67, 170>>, <<109, 83, 142, 170>>, <<105, 93, 101, 170>>,
    <<97, 113, 19, 170>>, <<71, 121, 46, 170>>, <<41, 139, 32, 170>>,
    <<26, 148, 25, 170>>, <<4, 146, 93, 170>>, <<241, 11, 206, 175>>,
    <<199, 59, 69, 175>>, <<158, 76, 89, 175>>, <<254, 49, 144, 200>>,
    <<242, 79, 21, 200>>, <<209, 76, 123, 200>>, <<179, 94, 109, 200>>,
    <<78, 147, 101, 200>>, <<183, 117, 36, 210>>, <<117, 111, 240, 210>>,
    <<108, 162, 1, 210>>, <<210, 122, 14, 225>>, <<125, 135, 170, 225>>,
    <<87, 173, 74, 225>>, <<243, 105, 72, 238>>, <<229, 119, 84, 250>>,
    <<169, 155, 56, 250>>, <<144, 132, 240, 250>>, <<135, 183, 1, 250>>,
    <<87, 189, 96, 250>>, <<35, 205, 150, 250>>, <<23, 235, 27, 250>>,
    <<20, 214, 143, 250>>, <<19, 221, 128, 255>> }

\* The colour of the pen getPenForColor returns.
getPenForColor(color) ==
  LET threshold == kDarkColorTreshold * 255 * 1000
      exact     == weighted_color(color)
  IN  IF exact > threshold
         \/ (exact = threshold
             /\ <<color.r, color.g, color.b, color.a>> \in kRoundedAbove)
      THEN kDarkColor
      ELSE kBrightColor

Filter(tag) == IF tag_filter.set THEN tag \in tag_filter.accept ELSE TRUE

\* The draw commands of renderTags for the tags from position i on.  The
\* position of a tag stands for the left edge of its rectangle.
RECURSIVE renderTags(_, _)
renderTags(tags, i) ==
  IF i > Len(tags) THEN <<>>
  ELSE LET tag    == tags[i]
           source == IF Filter(tag) THEN primary.property_color
                     ELSE secondary.property_color
           color  == IF ~enabled THEN gray ELSE getPenForColor(source)
       IN  <<[cmd |-> "drawText", index |-> i, part |-> "tag", tag |-> tag,
              color |-> color, pen_for |-> source]>>
           \o renderTags(tags, i + 1)

\* The draw commands of renderTagBackgrounds for the tags from position i on.
RECURSIVE renderTagBackgrounds(_, _, _)
renderTagBackgrounds(tags, i, line_only) ==
  IF i > Len(tags) THEN <<>>
  ELSE LET tag       == tags[i]
           first_sep == IF separator # NoSep THEN indexOf(tag, separator)
                        ELSE -1
           tag_only  == IF first_sep >= 0 THEN truncate(tag, first_sep)
                        ELSE tag
           property_only == IF first_sep >= 0 THEN sliced(tag, first_sep)
                            ELSE <<>>
           style     == IF first_sep >= 0
                        THEN (IF Filter(tag_only) THEN primary ELSE secondary)
                        ELSE (IF Filter(tag) THEN primary ELSE secondary)
           has_property == property_only # <<>>
           fills     == IF ~line_only /\ enabled
                        THEN <<[cmd |-> "fillPath", index |-> i,
                                part |-> "tag", tag |-> tag,
                                color |-> style.shade_color]>>
                             \o (IF has_property
                                 THEN <<[cmd |-> "fillPath", index |-> i,
                                         part |-> "property",
                                         tag |-> property_only,
                                         color |-> style.property_color]>>
                                 ELSE <<>>)
                        ELSE <<>>
           line      == <<[cmd |-> "drawLine", index |-> i, part |-> "tag",
                           tag |-> tag,
                           color |-> IF enabled THEN style.line_color
                                     ELSE lightgray]>>
       IN  fills \o line \o renderTagBackgrounds(tags, i + 1, line_only)

-----------------------------------------------------------------------------
Init ==
  /\ text = <<>>
  /\ separator = NoSep
  /\ unique_tags = TRUE
  /\ completer = NoCompleter
  /\ popup = {}
  /\ tag_filter = NoFilter
  /\ primary = Style(kLineColor, kShadeColor, kPropertyColor)
  /\ secondary = Style(kSecondaryLineColor, kSecondaryShadeColor,
                       kSecondaryPropertyColor)
  /\ enabled = TRUE
  /\ focus = FALSE
  /\ pen_color = kPropertyColor
  /\ pen = <<>>
  /\ emitted = <<>>
  /\ painted = <<>>
  /\ lastOp = "construct"
  /\ lastArg = <<>>
  /\ prevText = <<>>

config == <<separator, unique_tags, completer, tag_filter, primary, secondary,
            enabled, focus>>

\* A programmatic mutation: one setText call. readsText tells whether the
\* operation computes the new buffer from the old one.
Mutate(op, arg, new, readsText) ==
  /\ Len(new) <= MaxLen
  /\ text' = new
  /\ emitted' = textChanged(text, new)
  /\ painted' = <<>>
  /\ lastOp' = op
  /\ lastArg' = arg
  /\ prevText' = IF readsText THEN text ELSE <<>>
  /\ UNCHANGED <<config, popup, pen_color, pen>>

setTags(tags) == Mutate("setTags", tags, setTagsText(tags), FALSE)

addTag(tag) == Mutate("addTag", tag, addTagText(text, tag), TRUE)

removeLastTag == Mutate("removeLastTag", <<>>, removeLastTagText(text), TRUE)

setProperties(ps) ==
  Mutate("setProperties", ps, setPropertiesText(ps, separator), FALSE)

addProperty(p) ==
  Mutate("addProperty", p, addPropertyText(text, p, separator), TRUE)

\* The slot connected to QLineEdit::editingFinished.
makeTagsUnique ==
  IF unique_tags
  THEN Mutate("makeTagsUnique", <<>>, makeTagsUniqueText(text, separator),
              TRUE)
  ELSE Mutate("makeTagsUnique", <<>>, text, TRUE)

Configure(op) ==
  /\ emitted' = <<>>
  /\ painted' = <<>>
  /\ lastOp' = op
  /\ lastArg' = <<>>
  /\ prevText' = <<>>
  /\ UNCHANGED <<text, pen_color, pen>>

setPropertySeparator(ch) ==
  /\ separator' = ch
  /\ Configure("setPropertySeparator")
  /\ UNCHANGED <<unique_tags, completer, popup, tag_filter, primary,
                 secondary, enabled, focus>>

setUniqueTags(unique) ==
  /\ unique_tags' = unique
  /\ Configure("setUniqueTags")
  /\ UNCHANGED <<separator, completer, popup, tag_filter, primary, secondary,
                 enabled, focus>>

setTagsForCompletion(tags) ==
  /\ completer' = [set |-> TRUE, candidates |-> tags]
  /\ popup' = {}
  /\ Configure("setTagsForCompletion")
  /\ UNCHANGED <<separator, unique_tags, tag_filter, primary, secondary,
                 enabled, focus>>

\* keyPressEvent for a key that inserts ch at the end of the buffer: the
\* line edit takes the character unless the validator rejects the result
\* of an edit of valid input, then the completer is given its prefix.
keyPressEvent(ch) ==
  LET typed == text \o <<ch>>
      new   == IF validate(typed) # "Invalid" \/ validate(text) = "Invalid"
               THEN typed ELSE text
  IN  /\ Len(typed) <= MaxTyped
      /\ text' = new
      /\ emitted' = textEdited(text, new)
      /\ popup' = popupAfterKey(new, popup)
      /\ painted' = <<>>
      /\ lastOp' = "keyPressEvent"
      /\ lastArg' = <<ch>>
      /\ prevText' = text
      /\ UNCHANGED <<config, pen_color, pen>>

\* keyPressEvent for Backspace with the cursor at the end of the buffer.
keyPressBackspace ==
  LET new == IF text = <<>> THEN text ELSE truncate(text, Len(text) - 1)
  IN  /\ text' = new
      /\ emitted' = textEdited(text, new)
      /\ popup' = popupAfterKey(new, popup)
      /\ painted' = <<>>
      /\ lastOp' = "keyPressBackspace"
      /\ lastArg' = <<>>
      /\ prevText' = text
      /\ UNCHANGED <<config, pen_color, pen>>

\* QCompleter::activated(c): the lambda runs removeLastTag(); addTag(c).
completerActivated(c) ==
  LET removed == removeLastTagText(text)
      added   == addTagText(removed, c)
  IN  /\ c \in popup
      /\ Len(added) <= MaxLen
      /\ text' = added
      /\ emitted' = textChanged(text, removed) \o textChanged(removed, added)
      /\ popup' = {}
      /\ painted' = <<>>
      /\ lastOp' = "completerActivated"
      /\ lastArg' = c
      /\ prevText' = text
      /\ UNCHANGED <<config, pen_color, pen>>

setTagFilter(accept) ==
  /\ tag_filter' = [set |-> TRUE, accept |-> accept]
  /\ Configure("setTagFilter")
  /\ UNCHANGED <<separator, unique_tags, completer, popup, primary, secondary,
                 enabled, focus>>

setColors(style) ==
  /\ primary' = style
  /\ Configure("setColors")
  /\ UNCHANGED <<separator, unique_tags, completer, popup, tag_filter,
                 secondary, enabled, focus>>

setSecondaryColors(style) ==
  /\ secondary' = style
  /\ Configure("setSecondaryColors")
  /\ UNCHANGED <<separator, unique_tags, completer, popup, tag_filter,
                 primary, enabled, focus>>

\* QWidget::setEnabled, read back by isEnabled() while painting.
setEnabled(on) ==
  /\ enabled' = on
  /\ Configure("setEnabled")
  /\ UNCHANGED <<separator, unique_tags, completer, popup, tag_filter,
                 primary, secondary, focus>>

\* The widget gains or loses the input focus, read back by hasFocus().
focusEvent(on) ==
  /\ focus' = on
  /\ Configure("focusEvent")
  /\ UNCHANGED <<separator, unique_tags, completer, popup, tag_filter,
                 primary, secondary, enabled>>

paintEvent ==
  /\ painted' = IF focus
                THEN renderTagBackgrounds(getTags(text), 1, TRUE)
                ELSE renderTagBackgrounds(getTags(text), 1, FALSE)
                     \o renderTags(getTags(text), 1)
  /\ emitted' = <<>>
  /\ lastOp' = "paintEvent"
  /\ lastArg' = <<>>
  /\ prevText' = <<>>
  /\ UNCHANGED <<text, config, popup, pen_color, pen>>

\* The colours getPenForColor is examined on: every alpha over a grid of
\* channel values and over the colours of the source.
ChannelSamples == {0, 150, 245, 255}

PenColors ==
  { Color(c[1], c[2], c[3], a) :
      c \in (ChannelSamples \X ChannelSamples \X ChannelSamples)
            \cup {<<37, 150, 190>>, <<190, 155, 37>>, <<19, 221, 128>>},
      a \in 0..255 }

callGetPenForColor ==
  /\ pen = <<>>
  /\ pen' = <<getPenForColor(pen_color)>>
  /\ lastOp' = "getPenForColor"
  /\ UNCHANGED <<text, config, popup, pen_color, emitted, painted, lastArg,
                 prevText>>

NextApi ==
  \/ \E tags \in TagLists : setTags(tags)
  \/ \E tag \in TagPool : addTag(tag)
  \/ removeLastTag
  \/ \E ps \in PropLists : setProperties(ps)
  \/ \E p \in PropPool : addProperty(p)
  \/ makeTagsUnique
  \/ \E ch \in SepChars : setPropertySeparator(ch)
  \/ \E unique \in BOOLEAN : setUniqueTags(unique)

Next ==
  \/ NextApi
  \/ \E tags \in CandidateLists : setTagsForCompletion(tags)
  \/ \E ch \in Chars : keyPressEvent(ch)
  \/ keyPressBackspace
  \/ \E c \in UNION CandidateLists : completerActivated(c)

NextPaint ==
  \/ \E tags \in TagLists : setTags(tags)
  \/ \E ch \in SepChars : setPropertySeparator(ch)
  \/ \E accept \in FilterPool : setTagFilter(accept)
  \/ \E style \in StylePool : setColors(style)
  \/ \E style \in StylePool : setSecondaryColors(style)
  \/ \E on \in BOOLEAN : setEnabled(on)
  \/ \E on \in BOOLEAN : focusEvent(on)
  \/ paintEvent

InitPen ==
  /\ pen_color \in PenColors
  /\ pen = <<>>
  /\ text = <<>>
  /\ separator = NoSep
  /\ unique_tags = TRUE
  /\ completer = NoCompleter
  /\ popup = {}
  /\ tag_filter = NoFilter
  /\ primary = Style(kLineColor, kShadeColor, kPropertyColor)
  /\ secondary = Style(kSecondaryLineColor, kSecondaryShadeColor,
                       kSecondaryPropertyColor)
  /\ enabled = TRUE
  /\ focus = FALSE
  /\ emitted = <<>>
  /\ painted = <<>>
  /\ lastOp = "construct"
  /\ lastArg = <<>>
  /\ prevText = <<>>

NextPen == callGetPenForColor

Spec == Init /\ [][Next]_vars

SpecApi == Init /\ [][NextApi]_vars

SpecPaint == Init /\ [][NextPaint]_vars

SpecPen == InitPen /\ [][NextPen]_vars
-----------------------------------------------------------------------------
(* Vocabulary of the properties *)


A == <<"a">>
B == <<"b">>
AB == <<"a", "b">>

\* No leading space, no trailing space, no two consecutive spaces.
singleSpaced(t) ==
  /\ t = <<>> \/ (t[1] # SP /\ t[Len(t)] # SP)
  /\ \A i \in 1..(Len(t) - 1) : ~(t[i] = SP /\ t[i + 1] = SP)

\* The part of a tag before its first separator, the whole tag without one.
nameOf(tag, sep) ==
  IF sep # NoSep /\ \E i \in 1..Len(tag) : tag[i] = sep
  THEN SubSeq(tag, 1, (CHOOSE i \in 1..Len(tag) :
                         tag[i] = sep /\ \A j \in 1..(i - 1) : tag[j] # sep) - 1)
  ELSE tag

\* The elements of a sequence at the positions of a set, in order.
RECURSIVE restrict(_, _, _)
restrict(xs, keep, i) ==
  IF i > Len(xs) THEN <<>>
  ELSE (IF i \in keep THEN <<xs[i]>> ELSE <<>>) \o restrict(xs, keep, i + 1)

\* Every maximal run of adjacent tags of equal name replaced by its first.
firstOfRuns(tags, sep) ==
  restrict(tags,
           {i \in 1..Len(tags) :
              i = 1 \/ nameOf(tags[i], sep) # nameOf(tags[i - 1], sep)},
           1)

allButLast(xs) == IF xs = <<>> THEN <<>> ELSE SubSeq(xs, 1, Len(xs) - 1)

count(s, ch) == Cardinality({i \in 1..Len(s) : s[i] = ch})

\* name, then sep and a value for each value.
RECURSIVE spelled(_, _, _)
spelled(name, values, sep) ==
  IF values = <<>> THEN name
  ELSE spelled(name, allButLast(values), sep)
       \o <<sep>> \o values[Len(values)]

\* The buffer up to, and without, its last space; empty without a space.
beforeLastSpace(t) ==
  IF \E k \in 1..Len(t) : t[k] = SP
  THEN LET k == CHOOSE k \in 1..Len(t) :
                  t[k] = SP /\ \A j \in (k + 1)..Len(t) : t[j] # SP
       IN  SubSeq(t, 1, k - 1)
  ELSE <<>>

ProgrammaticOps ==
  {"setTags", "addTag", "removeLastTag", "setProperties", "addProperty",
   "makeTagsUnique", "completerActivated"}

UserEdits == {"keyPressEvent", "keyPressBackspace"}

-----------------------------------------------------------------------------
(* C1 *)

\* C1: in every state reachable from the empty buffer by setTags, addTag,
\* removeLastTag, setProperties, addProperty and makeTagsUnique with
\* non-empty, space-free tags, names and values, the buffer has no leading
\* space, no trailing space and no two consecutive spaces.
C1_SingleSpaced == singleSpaced(text)

-----------------------------------------------------------------------------
(* C2 *)

-----------------------------------------------------------------------------
(* C4 *)

\* C4: every mutation operation that changes the buffer emits tagsChanged
\* before it returns, the listener reading the new buffer; tagsEdited is
\* emitted by user edits only, never by a programmatic operation.
C4_ChangeNotifies ==
  [][ /\ (lastOp' \in ProgrammaticOps /\ text' # text)
          => /\ emitted' # <<>>
             /\ emitted'[Len(emitted')] =
                  [signal |-> "tagsChanged", text |-> text']
      /\ (\E i \in 1..Len(emitted') : emitted'[i].signal = "tagsEdited")
          => lastOp' \in UserEdits
    ]_vars

C4_Witness ==
  /\ lastOp = "completerActivated"
  /\ prevText # text
  /\ Len(emitted) = 2
  /\ emitted[2] = [signal |-> "tagsChanged", text |-> text]

-----------------------------------------------------------------------------
(* C5 *)

-----------------------------------------------------------------------------
(* C6 *)

\* C6: with a separator, getProperties returns one Property per tag of
\* getTags(), in order: its name is the text before the first separator
\* and its values are the separator-delimited segments after it (a=1=2 and
\* b give {a,[1,2]} and {b,[]}); without a separator it returns the empty
\* sequence whatever the buffer holds.
C6_PropertiesMirrorTags ==
  LET tags == getTags(text)
      ps   == getProperties(text, separator)
  IN  /\ separator = NoSep => ps = <<>>
      /\ separator # NoSep =>
           /\ Len(ps) = Len(tags)
           /\ \A i \in 1..Len(tags) :
                /\ ps[i].name = nameOf(tags[i], separator)
                /\ Len(ps[i].values) = count(tags[i], separator)
                /\ \A k \in 1..Len(ps[i].values) :
                     count(ps[i].values[k], separator) = 0
                /\ spelled(ps[i].name, ps[i].values, separator) = tags[i]
      /\ getProperties(join(<<<<"a", "=", "a", "=", "b">>, B>>), "=")
           = <<[name |-> A, values |-> <<A, B>>],
               [name |-> B, values |-> <<>>]>>

C6_Witness ==
  /\ separator = "="
  /\ getTags(text) = <<<<"a", "=", "b">>, B>>
  /\ getProperties(text, separator)
       = <<[name |-> A, values |-> <<B>>], [name |-> B, values |-> <<>>]>>

-----------------------------------------------------------------------------
(* C7 *)

\* C7 as stated: with a separator, a tag without a separator, and a tag
\* with nothing after its separator, both come back with values empty.
C7_NoValuesIsEmpty ==
  separator # NoSep =>
    \A i \in 1..Len(getTags(text)) :
      LET tag == getTags(text)[i]
      IN  (count(tag, separator) = 0
           \/ tag = Append(nameOf(tag, separator), separator))
            => getProperties(text, separator)[i].values = <<>>

\* C7 as amended: with a separator, a tag without a separator comes back
\* with values the empty sequence; a tag whose separator is followed by
\* nothing comes back with values the one-element sequence holding the
\* empty string; getProperties is defined for every buffer.
C7_NoSeparatorNoValues ==
  separator # NoSep =>
    /\ Len(getProperties(text, separator)) = Len(getTags(text))
    /\ \A i \in 1..Len(getTags(text)) :
         LET tag == getTags(text)[i]
             p   == getProperties(text, separator)[i]
         IN  /\ count(tag, separator) = 0 => p.values = <<>>
             /\ tag = Append(nameOf(tag, separator), separator)
                  => p.values = << <<>> >>

C7_Witness ==
  /\ separator = "="
  /\ getTags(text) = <<A, <<"b", "=">>>>
  /\ getProperties(text, separator)
       = <<[name |-> A, values |-> <<>>],
           [name |-> B, values |-> << <<>> >>]>>

-----------------------------------------------------------------------------
(* C8 *)

\* C8: with a separator and properties whose names are non-empty and whose
\* names and values hold neither a space nor the separator, setProperties(ps)
\* leaves one token per property, in order, spelled name then separator and
\* value for each value (x with 1,2 gives x=1=2), and getProperties()
\* returns ps again.
C8_PropertiesRoundTrip ==
  (lastOp = "setProperties" /\ separator # NoSep) =>
    /\ Len(getTags(text)) = Len(lastArg)
    /\ \A i \in 1..Len(lastArg) :
         getTags(text)[i] =
           spelled(lastArg[i].name, lastArg[i].values, separator)
    /\ getProperties(text, separator) = lastArg

C8_Witness ==
  /\ lastOp = "setProperties"
  /\ separator = "="
  /\ lastArg = <<[name |-> A, values |-> <<A, B>>]>>
  /\ getTags(text) = <<<<"a", "=", "a", "=", "b">>>>

-----------------------------------------------------------------------------
(* C10 *)

\* C10: when the popup activates a candidate c, getTags() afterwards is the
\* tags that preceded the last space of the buffer followed by c: the
\* partially typed last token, if any, is replaced by c, the earlier tags
\* are unchanged and no other tag is added.
C10_CompletionReplacesLastToken ==
  lastOp = "completerActivated" =>
    getTags(text) = Append(getTags(beforeLastSpace(prevText)), lastArg)

C10_Witness ==
  /\ lastOp = "completerActivated"
  /\ prevText = <<"b", SP, "a">>
  /\ lastArg = AB
  /\ getTags(text) = <<B, AB>>

-----------------------------------------------------------------------------
(* C3 *)

\* The Style a tag is to be drawn in: the primary one when no filter is set
\* or the filter accepts the tag's name, the secondary one otherwise.
styleOf(tag) ==
  IF ~tag_filter.set \/ nameOf(tag, separator) \in tag_filter.accept
  THEN primary ELSE secondary

\* C3: in one unfocused paint of an enabled widget every tag takes its
\* background shade, its property-value shade, its underline colour and the
\* property_color its text pen is derived from all from one Style: the
\* primary one when no filter is set or the filter accepts the tag (its name
\* before the first separator when it has one, else the whole tag), the
\* secondary one when the filter rejects it.
C3_OneStylePerTag ==
  (lastOp = "paintEvent" /\ ~focus /\ enabled) =>
    \A k \in 1..Len(painted) :
      LET c == painted[k]
          S == styleOf(getTags(text)[c.index])
      IN  /\ (c.cmd = "fillPath" /\ c.part = "tag") => c.color = S.shade_color
          /\ (c.cmd = "fillPath" /\ c.part = "property")
               => c.color = S.property_color
          /\ c.cmd = "drawLine" => c.color = S.line_color
          /\ c.cmd = "drawText" => c.pen_for = S.property_color

-----------------------------------------------------------------------------
(* C9 *)

\* 255000 times the luma 0.299 R' + 0.587 G' + 0.114 B' of a colour whose
\* channels are composited over white, c' = 255 - alpha (255 - c) / 255.
luma255000(c) ==
  299 * (65025 - c.a * (255 - c.r))
  + 587 * (65025 - c.a * (255 - c.g))
  + 114 * (65025 - c.a * (255 - c.b))

luma150 == 150 * 255000

\* C9 as stated: getPenForColor selects the dark pen exactly when the luma
\* exceeds 150, the off-white pen otherwise.
C9_DarkIffLumaAbove ==
  pen # <<>> =>
    /\ luma255000(pen_color) > luma150 => pen[1] = kDarkColor
    /\ luma255000(pen_color) <= luma150 => pen[1] = kBrightColor

\* C9 as amended: getPenForColor selects the dark (black) pen whenever the
\* luma exceeds 150 and the off-white pen whenever it is below 150 (at a luma
\* of exactly 150 the rounding of the double-precision sum decides); opaque
\* (245,245,245) selects the dark pen, opaque black the bright pen; every
\* colour selects the dark pen at alpha 0, and the selection never changes
\* from dark to bright as alpha decreases.
C9_DarkAboveBrightBelow ==
  pen # <<>> =>
    /\ pen[1] \in {kDarkColor, kBrightColor}
    /\ luma255000(pen_color) > luma150 => pen[1] = kDarkColor
    /\ luma255000(pen_color) < luma150 => pen[1] = kBrightColor
    /\ pen_color = Color(245, 245, 245, 255) => pen[1] = kDarkColor
    /\ pen_color = Color(0, 0, 0, 255) => pen[1] = kBrightColor
    /\ pen_color.a = 0 => pen[1] = kDarkColor
    /\ (pen[1] = kDarkColor /\ pen_color.a > 0)
         => getPenForColor([pen_color EXCEPT !.a = pen_color.a - 1])
              = kDarkColor

C9_Witness ==
  /\ pen = <<kDarkColor>>
  /\ pen_color = Color(19, 221, 128, 255)
  /\ luma255000(pen_color) = luma150
====
